---- MODULE Spec2Model ----
(***************************************************************************)
(* Model of the Issue_Analyzer analysis pipeline (src/pipeline.py) with    *)
(* its collaborators: GitHubParser (src/github_parser.py), StaticAnalyzer  *)
(* (src/code_analyzer.py) and GeminiAnalyzer (src/gemini_analyzer.py).     *)
(*                                                                         *)
(* A Python dict is a TLA+ function whose DOMAIN is its key set, so that   *)
(* dict.get(key, default) is Get below and an absent key stays absent.     *)
(* A source line is the record [text, len]: its stripped text and its      *)
(* physical length (the text plus surrounding whitespace).                 *)
(* Scores are carried in tenths (overall_score 98.8 is 988).               *)
(***************************************************************************)
EXTENDS Integers, Sequences, FiniteSets, TLC

VARIABLES
    pc,             \* position of the run in the workflow graph
    use_cli,        \* GeminiAnalyzer.use_cli
    model,          \* GeminiAnalyzer.model is not None
    repo_url,       \* AnalysisState["repo_url"]
    repo_info,      \* AnalysisState["repo_info"]
    code_files,     \* AnalysisState["code_files"]
    static_issues,  \* AnalysisState["static_issues"]
    ai_issues,      \* AnalysisState["ai_issues"]
    final_report,   \* AnalysisState["final_report"]
    error,          \* AnalysisState["error"]
    executed,       \* the nodes run so far in this run, in order, each with
                    \* whether its except branch ran
    result,         \* the value analyze() returned
    temp_dir,       \* GitHubParser.temp_dir is not None
    temp_dir_left,  \* a directory made by clone_repository is still on disk
    ai_produced,    \* all_ai_issues of _run_ai_analysis, before the enhancement
    provider_calls  \* the calls _run_ai_analysis made to the GeminiAnalyzer
                    \* in this run, in order

vars == <<pc, use_cli, model, repo_url, repo_info, code_files, static_issues,
          ai_issues, final_report, error, executed, result, temp_dir, temp_dir_left,
          ai_produced, provider_calls>>

\* the fields of the GitHubParser object and what it left on disk
parserState == <<temp_dir, temp_dir_left>>

\* what is recorded of the AI stage of the current run
aiRecord == <<ai_produced, provider_calls>>

runState == <<repo_url, repo_info, code_files, static_issues, ai_issues,
              final_report, error>>

(***************************************************************************)
(* Bounds of the model.                                                    *)
(***************************************************************************)
MaxFiles == 2
MaxIssues == 2

\* a file count at which a score can fall exactly between two tenths
ManyFiles == 8

\* how far above a recommendation rule's threshold the issue counts go
MaxOver == 1

\* the number of lines of the code units the detectors are run on
MaxLines == 5

(***************************************************************************)
(* Python helpers.                                                         *)
(***************************************************************************)
EmptyDict == [k \in {} |-> ""]

\* None where a str is expected, and None where a dict is expected (TLC
\* compares values of one kind only)
None == "None"

NoneDict == [None |-> TRUE]

Get(d, key, default) == IF key \in DOMAIN d THEN d[key] ELSE default

\* {**a, **b}: the keys of b win
Merge(a, b) == [k \in DOMAIN a \cup DOMAIN b |-> IF k \in DOMAIN b THEN b[k] ELSE a[k]]

Max(a, b) == IF a >= b THEN a ELSE b

Min(a, b) == IF a <= b THEN a ELSE b

RECURSIVE SumSeq(_)
SumSeq(s) == IF s = <<>> THEN 0 ELSE Head(s) + SumSeq(Tail(s))

RECURSIVE Flatten(_)
Flatten(ss) == IF ss = <<>> THEN <<>> ELSE Head(ss) \o Flatten(Tail(ss))

SelectIdx(s, Test(_)) == LET F[i \in 0..Len(s)] ==
                                 IF i = 0 THEN <<>>
                                 ELSE IF Test(i) THEN Append(F[i - 1], i) ELSE F[i - 1]
                         IN F[Len(s)]

(***************************************************************************)
(* GitHubParser: URL parsing and repository metadata.                      *)
(* A URL is the record of what parse_github_url reads from it once a       *)
(* trailing ".git" is cut: whether it names github.com, and its path       *)
(* segments after the host.                                                *)
(***************************************************************************)
Urls == { [github |-> TRUE,  parts |-> <<"owner", "repo">>],
          [github |-> TRUE,  parts |-> <<"owner">>],
          [github |-> FALSE, parts |-> <<"owner", "repo">>] }

\* [ok |-> TRUE, value |-> dict] or [ok |-> FALSE, value |-> str(exception)]
parse_github_url(url) ==
    IF ~url.github
    THEN [ok |-> FALSE, value |-> "Failed to parse GitHub URL: Invalid GitHub URL"]
    ELSE IF Len(url.parts) < 2
    THEN [ok |-> FALSE, value |-> "Failed to parse GitHub URL: Invalid GitHub URL format"]
    ELSE [ok |-> TRUE,
          value |-> [owner |-> url.parts[1], repo |-> url.parts[2],
                     full_url |-> "https://github.com/" \o url.parts[1] \o "/"
                                      \o url.parts[2] \o ".git"]]

\* what the GitHub API answers for a repository (status 200)
ApiData == [name |-> "repo", description |-> "", language |-> "Python",
            stars |-> 0, forks |-> 0, size |-> 0]

\* api_ok: the request returned status 200; any failure yields {}
get_repository_info(url, api_ok) ==
    IF parse_github_url(url).ok /\ api_ok THEN ApiData ELSE EmptyDict

(***************************************************************************)
(* Source text.  The texts below are the stripped lines the model draws    *)
(* from; Occurs and Prefixes tabulate, for each of them, the substrings    *)
(* and prefixes the analyzers search for (Python's `in` and startswith on  *)
(* that text; the secret keywords are searched in the lower-cased line,    *)
(* and every text here is lower case).                                     *)
(***************************************************************************)
Occurs ==
    { <<"x = 1", "=">>,
      <<"y = eval(s)", "=">>, <<"y = eval(s)", "eval(">>,
      <<"password = 'p'", "password">>, <<"password = 'p'", "=">>,
      <<"password = 'p'", "'">>,
      <<"secret_token = 't'", "secret">>, <<"secret_token = 't'", "token">>,
      <<"secret_token = 't'", "=">>, <<"secret_token = 't'", "'">>,
      <<"for i in range(len(a)):", "for">>, <<"for i in range(len(a)):", "range(len(">>,
      <<"q = a / b", "=">>, <<"q = a / b", "/">>,
      <<"if b: q = a / b", "=">>, <<"if b: q = a / b", "/">>, <<"if b: q = a / b", "if">>,
      <<"function g() {", "function ">>,
      <<"\"\"\"doc\"\"\"", "\"">> }

Prefixes == { <<"def f():", "def ">> }

\* the name _basic_code_analysis extracts from a function line
FuncNames == [t \in {"def f():", "function g() {"} |->
                 IF t = "def f():" THEN "f" ELSE "g"]

Contains(line, sub) == <<line.text, sub>> \in Occurs

StartsWith(text, prefix) == <<text, prefix>> \in Prefixes

Line(text, len) == [text |-> text, len |-> len]

\* len(content): the lines and the newlines between them
ContentLen(content) == SumSeq([i \in 1..Len(content) |-> content[i].len]) + Len(content) - 1

(***************************************************************************)
(* TreeSitterAnalyzer.  No parser is ever given a language, so parse()     *)
(* raises and analyze_code_structure always answers with                   *)
(* _basic_code_analysis.  Only 'functions' is read by the checks.          *)
(***************************************************************************)
_basic_code_analysis(code, language) ==
    LET IsFunc(i) == CASE language = "python"     -> StartsWith(code[i].text, "def ")
                       [] language = "javascript" -> Contains(code[i], "function ")
                       [] OTHER                   -> FALSE
        idx == SelectIdx(code, IsFunc)
    IN [functions |-> [k \in 1..Len(idx) |->
                          [name |-> FuncNames[code[idx[k]].text], line |-> idx[k]]]]

analyze_code_structure(code, language) == _basic_code_analysis(code, language)

(***************************************************************************)
(* StaticAnalyzer: the four check families and analyze_file.               *)
(***************************************************************************)
\* the estimate of a function's length, and the length above which it is long
FuncLinesEstimate == 20

LongFunctionThreshold == 50

LongLineThreshold == 120

\* _check_code_quality that takes a line of 120 characters for long
_check_code_qualityFromThreshold(code, language, structure) ==
    LET funcs == structure.functions
        IsLongFunc(k) == FuncLinesEstimate > LongFunctionThreshold
        longf == SelectIdx(funcs, IsLongFunc)
        IsLongLine(i) == code[i].len >= LongLineThreshold
        longl == SelectIdx(code, IsLongLine)
    IN [k \in 1..Len(longf) |->
           [type |-> "code_quality", severity |-> "MEDIUM", title |-> "Long Function",
            description |-> "Function '" \o funcs[longf[k]].name \o "' is too long ("
                                \o ToString(FuncLinesEstimate) \o " lines)",
            line |-> funcs[longf[k]].line,
            suggestion |-> "Consider breaking this function into smaller, more focused functions"]]
       \o
       [k \in 1..Len(longl) |->
           [type |-> "code_quality", severity |-> "LOW", title |-> "Long Line",
            description |-> "Line " \o ToString(longl[k]) \o " exceeds 120 characters ("
                                \o ToString(code[longl[k]].len) \o " characters)",
            line |-> longl[k],
            suggestion |-> "Break long lines into multiple lines for better readability"]]

_check_code_quality(code, language, structure) ==
    LET funcs == structure.functions
        IsLongFunc(k) == FuncLinesEstimate > LongFunctionThreshold
        longf == SelectIdx(funcs, IsLongFunc)
        IsLongLine(i) == code[i].len > LongLineThreshold
        longl == SelectIdx(code, IsLongLine)
    IN [k \in 1..Len(longf) |->
           [type |-> "code_quality", severity |-> "MEDIUM", title |-> "Long Function",
            description |-> "Function '" \o funcs[longf[k]].name \o "' is too long ("
                                \o ToString(FuncLinesEstimate) \o " lines)",
            line |-> funcs[longf[k]].line,
            suggestion |-> "Consider breaking this function into smaller, more focused functions"]]
       \o
       [k \in 1..Len(longl) |->
           [type |-> "code_quality", severity |-> "LOW", title |-> "Long Line",
            description |-> "Line " \o ToString(longl[k]) \o " exceeds 120 characters ("
                                \o ToString(code[longl[k]].len) \o " characters)",
            line |-> longl[k],
            suggestion |-> "Break long lines into multiple lines for better readability"]]

secret_patterns == <<"password", "api_key", "secret", "token">>

_check_security_issues(code, language) ==
    LET SecretsOfLine(i) ==
            LET Hit(p) == /\ Contains(code[i], secret_patterns[p])
                          /\ Contains(code[i], "=")
                          /\ (Contains(code[i], "\"") \/ Contains(code[i], "'"))
                hits == SelectIdx(secret_patterns, Hit)
            IN [k \in 1..Len(hits) |->
                   [type |-> "security", severity |-> "HIGH",
                    title |-> "Potential Hardcoded Secret",
                    description |-> "Line " \o ToString(i) \o " may contain a hardcoded secret",
                    line |-> i,
                    suggestion |-> "Use environment variables or secure configuration for secrets"]]
        IsEval(i) == Contains(code[i], "eval(")
        evals == SelectIdx(code, IsEval)
    IN Flatten([i \in 1..Len(code) |-> SecretsOfLine(i)])
       \o
       (IF language = "python"
        THEN [k \in 1..Len(evals) |->
                 [type |-> "security", severity |-> "CRITICAL",
                  title |-> "Dangerous eval() Usage",
                  description |-> "Line " \o ToString(evals[k])
                                      \o " uses eval() which can execute arbitrary code",
                  line |-> evals[k],
                  suggestion |-> "Avoid eval(). Use safer alternatives like ast.literal_eval() for simple cases"]]
        ELSE <<>>)

_check_performance_issues(code, language, structure) ==
    LET IsLoop(i) == Contains(code[i], "for") /\ Contains(code[i], "range(len(")
        loops == SelectIdx(code, IsLoop)
    IN IF language = "python"
       THEN [k \in 1..Len(loops) |->
                [type |-> "performance", severity |-> "MEDIUM", title |-> "Inefficient Loop",
                 description |-> "Line " \o ToString(loops[k]) \o " uses range(len()) pattern",
                 line |-> loops[k],
                 suggestion |-> "Use enumerate() or iterate directly over the collection"]]
       ELSE <<>>

\* _check_maintainability without the test of the language
_check_maintainabilityAnyLanguage(code, language, structure) ==
    LET funcs == structure.functions
    IN IF TRUE
       THEN [k \in 1..Len(funcs) |->
                [type |-> "maintainability", severity |-> "LOW",
                 title |-> "Missing Documentation",
                 description |-> "Function '" \o funcs[k].name \o "' lacks documentation",
                 line |-> Get(funcs[k], "line", 1),
                 suggestion |-> "Add docstring to explain function purpose, parameters, and return value"]]
       ELSE <<>>

_check_maintainability(code, language, structure) ==
    LET funcs == structure.functions
    IN IF language = "python"
       THEN [k \in 1..Len(funcs) |->
                [type |-> "maintainability", severity |-> "LOW",
                 title |-> "Missing Documentation",
                 description |-> "Function '" \o funcs[k].name \o "' lacks documentation",
                 line |-> Get(funcs[k], "line", 1),
                 suggestion |-> "Add docstring to explain function purpose, parameters, and return value"]]
       ELSE <<>>

\* issue[key] = value
SetItem(issue, key, value) == Merge(issue, [k \in {key} |-> value])

analyze_file(file_content, language, file_path) ==
    LET structure == analyze_code_structure(file_content, language)
        issues == _check_code_quality(file_content, language, structure)
                  \o _check_security_issues(file_content, language)
                  \o _check_performance_issues(file_content, language, structure)
                  \o _check_maintainability(file_content, language, structure)
    IN [k \in 1..Len(issues) |-> SetItem(issues[k], "file_path", file_path)]

(***************************************************************************)
(* Config and GitHubParser.extract_code_files.  A repository is the        *)
(* sequence of its files in the order rglob yields them; a repository file *)
(* carries what extraction reads: its path, whether a path component       *)
(* starts with '.', its suffix, st_size, whether it reads as UTF-8, and    *)
(* its content.                                                            *)
(***************************************************************************)
MAX_FILES_TO_ANALYZE == 50

MAX_FILE_SIZE == 1048576

SUPPORTED_EXTENSIONS ==
    [e \in {".py", ".js", ".ts", ".java", ".cpp", ".c", ".cs", ".go", ".rb", ".php"} |->
        CASE e = ".py"   -> "python"
          [] e = ".js"   -> "javascript"
          [] e = ".ts"   -> "typescript"
          [] e = ".java" -> "java"
          [] e = ".cpp"  -> "cpp"
          [] e = ".c"    -> "c"
          [] e = ".cs"   -> "c_sharp"
          [] e = ".go"   -> "go"
          [] e = ".rb"   -> "ruby"
          [] e = ".php"  -> "php"]

RepoFile(path, suffix, hidden, readable, content) ==
    [path |-> path, suffix |-> suffix, hidden |-> hidden, readable |-> readable,
     st_size |-> ContentLen(content), content |-> content]

RepoFiles ==
    { RepoFile("a.py", ".py", FALSE, TRUE,
               <<Line("y = eval(s)", 11), Line("def f():", 8), Line("except:", 11)>>),
      RepoFile("b.py", ".py", FALSE, TRUE,
               <<Line("password = 'p'", 130), Line("for i in range(len(a)):", 23),
                 Line("q = a / b", 9)>>),
      RepoFile("c.js", ".js", FALSE, TRUE,
               <<Line("function g() {", 14), Line("x = 1", 5)>>),
      RepoFile(".git/d.py", ".py", TRUE, TRUE, <<Line("y = eval(s)", 11)>>),
      RepoFile("e.txt", ".txt", FALSE, TRUE, <<Line("x = 1", 5)>>),
      RepoFile("f.py", ".py", FALSE, FALSE, <<Line("x = 1", 5)>>),
      RepoFile("g.py", ".py", FALSE, TRUE, <<Line("x = 1", MAX_FILE_SIZE + 1)>>) }

\* the repositories a clone may deliver: up to MaxFiles distinct files
Repos == UNION { { r \in [1..n -> RepoFiles] : \A i, j \in 1..n : r[i] = r[j] => i = j }
                 : n \in 0..MaxFiles }

\* ExtractFrom that stops only above the file cap
RECURSIVE ExtractFromAboveCap(_, _)
ExtractFromAboveCap(repo, code_files_so_far) ==
    IF repo = <<>> THEN code_files_so_far
    ELSE LET f == Head(repo)
         IN IF \/ f.hidden
               \/ f.suffix \notin DOMAIN SUPPORTED_EXTENSIONS
               \/ f.st_size > MAX_FILE_SIZE
               \/ ~f.readable
            THEN ExtractFromAboveCap(Tail(repo), code_files_so_far)
            ELSE LET more == Append(code_files_so_far,
                                    [path |-> f.path, content |-> f.content,
                                     language |-> SUPPORTED_EXTENSIONS[f.suffix],
                                     size |-> ContentLen(f.content)])
                 IN IF Len(more) > MAX_FILES_TO_ANALYZE THEN more
                    ELSE ExtractFromAboveCap(Tail(repo), more)

RECURSIVE ExtractFrom(_, _)
ExtractFrom(repo, code_files_so_far) ==
    IF repo = <<>> THEN code_files_so_far
    ELSE LET f == Head(repo)
         IN IF \/ f.hidden
               \/ f.suffix \notin DOMAIN SUPPORTED_EXTENSIONS
               \/ f.st_size > MAX_FILE_SIZE
               \/ ~f.readable
            THEN ExtractFrom(Tail(repo), code_files_so_far)
            ELSE LET more == Append(code_files_so_far,
                                    [path |-> f.path, content |-> f.content,
                                     language |-> SUPPORTED_EXTENSIONS[f.suffix],
                                     size |-> ContentLen(f.content)])
                 IN IF Len(more) >= MAX_FILES_TO_ANALYZE THEN more
                    ELSE ExtractFrom(Tail(repo), more)

extract_code_files(repo) == ExtractFrom(repo, <<>>)

(***************************************************************************)
(* GeminiAnalyzer.  What the backend (the API model or the CLI process)    *)
(* answers to one call is an input of the model:                           *)
(*   [kind |-> "fail"]       the call raised, timed out, exited non-zero   *)
(*                           or printed nothing                            *)
(*   [kind |-> "json", issues |-> <<dict, ...>>]                           *)
(*                           a JSON object whose 'issues' is a list of     *)
(*                           objects                                       *)
(*   [kind |-> "json_bad"]   JSON of another shape ('issues' null, a list  *)
(*                           of strings, a top-level list): reading it     *)
(*                           raises TypeError or AttributeError            *)
(*   [kind |-> "text", lines |-> <<str, ...>>]                             *)
(*                           text that holds no JSON object                *)
(* A JSON value that is a list, where a string is expected, is the value   *)
(* JsonList: it cannot be a dict key.                                      *)
(***************************************************************************)
JsonList == "<list>"

Hashable(v) == v # JsonList

\* lines of a text answer in which _parse_text_response finds an issue keyword
IssueKeywordLines == { "Bug: index may be out of range" }

\* lines of a simulation answer in which _extract_runtime_issues finds a keyword
RuntimeKeywordLines == { "An IndexError exception is possible" }

_parse_text_response(lines, file_path) ==
    LET IsIssue(i) == lines[i] # "" /\ lines[i] \in IssueKeywordLines
        hits == SelectIdx(lines, IsIssue)
    IN [k \in 1..Len(hits) |->
           [type |-> "logic_error", severity |-> "MEDIUM", title |-> lines[hits[k]],
            description |-> lines[hits[k]], line |-> 1,
            suggestion |-> "Review and fix the identified issue",
            file_path |-> file_path, source |-> "gemini"]]

\* [raised |-> TRUE] when an exception other than JSONDecodeError escapes
_parse_gemini_response(reply, file_path) ==
    CASE reply.kind = "json" ->
             [raised |-> FALSE,
              issues |-> [k \in 1..Len(reply.issues) |->
                             SetItem(SetItem(reply.issues[k], "file_path", file_path),
                                     "source", "gemini")]]
      [] reply.kind = "json_bad" -> [raised |-> TRUE, issues |-> <<>>]
      [] reply.kind = "text" ->
             [raised |-> FALSE, issues |-> _parse_text_response(reply.lines, file_path)]

\* _fallback_logic_analysis without the test of the language
_fallback_logic_analysisAnyLanguage(code, language, file_path) ==
    LET OfLine(i) ==
            (IF code[i].text = "except:"
             THEN << [type |-> "logic_error", severity |-> "MEDIUM",
                      title |-> "Bare Except Clause",
                      description |-> "Bare except clause catches all exceptions",
                      line |-> i,
                      suggestion |-> "Specify the exception type or use Exception",
                      file_path |-> file_path, source |-> "fallback"] >>
             ELSE <<>>)
            \o
            (IF Contains(code[i], "/") /\ ~Contains(code[i], "if")
             THEN << [type |-> "logic_error", severity |-> "HIGH",
                      title |-> "Potential Division by Zero",
                      description |-> "Division operation without zero check",
                      line |-> i,
                      suggestion |-> "Add validation to ensure divisor is not zero",
                      file_path |-> file_path, source |-> "fallback"] >>
             ELSE <<>>)
    IN Flatten([i \in 1..Len(code) |-> OfLine(i)])

_fallback_logic_analysis(code, language, file_path) ==
    LET OfLine(i) ==
            (IF language = "python" /\ code[i].text = "except:"
             THEN << [type |-> "logic_error", severity |-> "MEDIUM",
                      title |-> "Bare Except Clause",
                      description |-> "Bare except clause catches all exceptions",
                      line |-> i,
                      suggestion |-> "Specify the exception type or use Exception",
                      file_path |-> file_path, source |-> "fallback"] >>
             ELSE <<>>)
            \o
            (IF language = "python" /\ Contains(code[i], "/") /\ ~Contains(code[i], "if")
             THEN << [type |-> "logic_error", severity |-> "HIGH",
                      title |-> "Potential Division by Zero",
                      description |-> "Division operation without zero check",
                      line |-> i,
                      suggestion |-> "Add validation to ensure divisor is not zero",
                      file_path |-> file_path, source |-> "fallback"] >>
             ELSE <<>>)
    IN Flatten([i \in 1..Len(code) |-> OfLine(i)])

\* _analyze_with_cli_logic and the API branch of analyze_code_logic fall back
\* alike: on a failed call and on any exception of the parse
analyze_code_logic(cli, mdl, code, language, file_path, reply) ==
    IF ~cli /\ ~mdl THEN _fallback_logic_analysis(code, language, file_path)
    ELSE IF reply.kind = "fail" THEN _fallback_logic_analysis(code, language, file_path)
    ELSE IF cli /\ reply.kind = "text" /\ reply.lines = <<"">>
    THEN _fallback_logic_analysis(code, language, file_path)
    ELSE LET parsed == _parse_gemini_response(reply, file_path)
         IN IF parsed.raised THEN _fallback_logic_analysis(code, language, file_path)
            ELSE parsed.issues

_extract_runtime_issues(lines) ==
    LET IsIssue(i) == lines[i] \in RuntimeKeywordLines
        hits == SelectIdx(lines, IsIssue)
    IN [k \in 1..Len(hits) |-> lines[hits[k]]]

\* the value of simulation.get("potential_runtime_issues", [])
simulate_code_execution(mdl, reply) ==
    IF ~mdl THEN <<>>
    ELSE IF reply.kind = "text" THEN _extract_runtime_issues(reply.lines)
    ELSE <<>>

_enhance_suggestions_for_file(issues, reply) ==
    IF \E k \in 1..Len(issues) : {"title", "description"} \ DOMAIN issues[k] # {}
    THEN issues
    ELSE IF reply.kind # "text" THEN issues
    ELSE [k \in 1..Len(issues) |->
             IF k <= Len(reply.lines) /\ reply.lines[k] # ""
             THEN SetItem(issues[k], "enhanced_suggestion", reply.lines[k])
             ELSE issues[k]]

\* the keys of files_issues in insertion order: each file_path at its first issue
RECURSIVE GroupKeys(_, _)
GroupKeys(issues, seen) ==
    IF issues = <<>> THEN seen
    ELSE LET fp == Get(Head(issues), "file_path", "unknown")
         IN GroupKeys(Tail(issues),
                      IF \E k \in 1..Len(seen) : seen[k] = fp THEN seen ELSE Append(seen, fp))

\* generate_improvement_suggestions that does not test self.model
generate_improvement_suggestionsNoModelTest(mdl, issues, replies) ==
    IF issues = <<>> THEN issues
    ELSE LET keys == GroupKeys(issues, <<>>)
             Group(fp) == LET In(i) == Get(issues[i], "file_path", "unknown") = fp
                              idx == SelectIdx(issues, In)
                          IN [k \in 1..Len(idx) |-> issues[idx[k]]]
         IN Flatten([g \in 1..Len(keys) |->
                        _enhance_suggestions_for_file(Group(keys[g]), replies[keys[g]])])

\* replies: file_path -> the backend's answer to that file's enhancement call
generate_improvement_suggestions(mdl, issues, replies) ==
    IF ~mdl \/ issues = <<>> THEN issues
    ELSE LET keys == GroupKeys(issues, <<>>)
             Group(fp) == LET In(i) == Get(issues[i], "file_path", "unknown") = fp
                              idx == SelectIdx(issues, In)
                          IN [k \in 1..Len(idx) |-> issues[idx[k]]]
         IN Flatten([g \in 1..Len(keys) |->
                        _enhance_suggestions_for_file(Group(keys[g]), replies[keys[g]])])

(***************************************************************************)
(* Which calls of the GeminiAnalyzer let an exception out.  The try body   *)
(* of each raises when the backend call fails or when reading the answer   *)
(* raises; `except Exception` catches it, and neither the fallback nor the *)
(* handlers raise.  The CLI runner (_analyze_with_cli) catches its own     *)
(* failures and answers "".                                                *)
(***************************************************************************)
\* analyze_code_logic whose handlers catch json.JSONDecodeError only
analyze_code_logic_raisesUncaught(cli, mdl, reply) ==
    /\ cli \/ mdl
    /\ \/ mdl /\ reply.kind = "fail"
       \/ reply.kind = "json_bad"

analyze_code_logic_raises(cli, mdl, reply) ==
    LET body_raises == /\ cli \/ mdl
                       /\ \/ mdl /\ reply.kind = "fail"
                          \/ /\ reply.kind # "fail"
                             /\ _parse_gemini_response(reply, "").raised
        caught == TRUE
    IN body_raises /\ ~caught

simulate_code_execution_raises(mdl, reply) ==
    LET body_raises == mdl /\ reply.kind = "fail"
        caught == TRUE
    IN body_raises /\ ~caught

\* the grouping and the per-file calls run under `except Exception`
generate_improvement_suggestions_raises(mdl) ==
    LET body_raises == FALSE
        caught == TRUE
    IN body_raises /\ ~caught

(***************************************************************************)
(* Report synthesis: _generate_final_report and _generate_recommendations. *)
(***************************************************************************)
SeverityKeys == {"CRITICAL", "HIGH", "MEDIUM", "LOW", "INFO"}

CRITICAL_WEIGHT == 10

HIGH_WEIGHT == 5

MEDIUM_WEIGHT == 2

LOW_WEIGHT == 1

SeverityOf(issue) == Get(issue, "severity", "MEDIUM")

TypeOf(issue) == Get(issue, "type", "unknown")

\* the number of issues whose Key(issue) is k
CountBy(issues, Key(_), k) == Cardinality({i \in 1..Len(issues) : Key(issues[i]) = k})

\* severity_counts after the tally loop: only the keys already present count
SeverityCounts(issues, keys) == [s \in keys |-> CountBy(issues, SeverityOf, s)]

\* TypeCounts that tallies only the issues carrying a 'type'
TypeCountsTypedOnly(issues) ==
    [t \in {issues[i].type : i \in {j \in 1..Len(issues) : "type" \in DOMAIN issues[j]}} |->
        CountBy(issues, TypeOf, t)]

\* type_counts after the tally loop: a key for every type met
TypeCounts(issues) ==
    [t \in {TypeOf(issues[i]) : i \in 1..Len(issues)} |-> CountBy(issues, TypeOf, t)]

\* `severity in severity_counts` and `type_counts.get(issue_type, 0)` raise
\* TypeError on a value that cannot be hashed
TallyRaises(issues) ==
    \E i \in 1..Len(issues) : ~Hashable(SeverityOf(issues[i])) \/ ~Hashable(TypeOf(issues[i]))

\* round(a / n, 0) for a >= 0, n > 0: to nearest, ties to even
RoundDiv(a, n) ==
    LET q == a \div n
        r == a % n
    IN IF 2 * r < n THEN q
       ELSE IF 2 * r > n THEN q + 1
       ELSE IF q % 2 = 0 THEN q ELSE q + 1

\* PenaltyScore that also weighs INFO issues
PenaltyScoreWithInfo(severity_counts) ==
    severity_counts["CRITICAL"] * CRITICAL_WEIGHT + severity_counts["HIGH"] * HIGH_WEIGHT
    + severity_counts["MEDIUM"] * MEDIUM_WEIGHT + severity_counts["LOW"] * LOW_WEIGHT
    + severity_counts["INFO"]

PenaltyScore(severity_counts) ==
    severity_counts["CRITICAL"] * CRITICAL_WEIGHT + severity_counts["HIGH"] * HIGH_WEIGHT
    + severity_counts["MEDIUM"] * MEDIUM_WEIGHT + severity_counts["LOW"] * LOW_WEIGHT

\* OverallScore without the max(0, ...) clamp
OverallScoreUnclamped(penalty_score, code_files_count, total_issues) ==
    IF code_files_count > 0
    THEN LET a == 1000 * code_files_count - 100 * penalty_score
         IN IF a >= 0 THEN RoundDiv(a, code_files_count)
            ELSE -RoundDiv(-a, code_files_count)
    ELSE IF total_issues = 0 THEN 1000 ELSE 500

\* OverallScore with the no-files branch the wrong way round
OverallScoreNoFilesInverted(penalty_score, code_files_count, total_issues) ==
    IF code_files_count > 0
    THEN RoundDiv(Max(0, 1000 * code_files_count - 100 * penalty_score), code_files_count)
    ELSE IF total_issues = 0 THEN 500 ELSE 1000

\* OverallScore that scores 50 whenever there are no files
OverallScoreNoFilesHalf(penalty_score, code_files_count, total_issues) ==
    IF code_files_count > 0
    THEN RoundDiv(Max(0, 1000 * code_files_count - 100 * penalty_score), code_files_count)
    ELSE 500

\* round(base_score, 1) in tenths; the quotient is taken exactly
OverallScore(penalty_score, code_files_count, total_issues) ==
    IF code_files_count > 0
    THEN RoundDiv(Max(0, 1000 * code_files_count - 100 * penalty_score), code_files_count)
    ELSE IF total_issues = 0 THEN 1000 ELSE 500

\* _generate_recommendations whose HIGH rule fires from three issues on
_generate_recommendationsHighAtThree(issues) ==
    LET type_counts == TypeCounts(issues)
        severity_counts == SeverityCounts(issues, {"CRITICAL", "HIGH", "MEDIUM", "LOW"})
        recommendations ==
            (IF severity_counts["CRITICAL"] > 0
             THEN <<"Address critical security and logic issues immediately">> ELSE <<>>)
            \o
            (IF severity_counts["HIGH"] >= 3
             THEN <<"High number of high-severity issues detected - consider code review">>
             ELSE <<>>)
            \o
            (IF Get(type_counts, "security", 0) > 0
             THEN <<"Implement security best practices and input validation">> ELSE <<>>)
            \o
            (IF Get(type_counts, "performance", 0) > 2
             THEN <<"Optimize performance bottlenecks for better efficiency">> ELSE <<>>)
            \o
            (IF Get(type_counts, "maintainability", 0) > 5
             THEN <<"Improve code documentation and maintainability">> ELSE <<>>)
    IN IF recommendations = <<>>
       THEN <<"Code quality looks good! Consider regular analysis for continuous improvement">>
       ELSE recommendations

\* _generate_recommendations without the final `if not recommendations`
_generate_recommendationsNoFallback(issues) ==
    LET type_counts == TypeCounts(issues)
        severity_counts == SeverityCounts(issues, {"CRITICAL", "HIGH", "MEDIUM", "LOW"})
    IN (IF severity_counts["CRITICAL"] > 0
        THEN <<"Address critical security and logic issues immediately">> ELSE <<>>)
       \o
       (IF severity_counts["HIGH"] > 3
        THEN <<"High number of high-severity issues detected - consider code review">>
        ELSE <<>>)
       \o
       (IF Get(type_counts, "security", 0) > 0
        THEN <<"Implement security best practices and input validation">> ELSE <<>>)
       \o
       (IF Get(type_counts, "performance", 0) > 2
        THEN <<"Optimize performance bottlenecks for better efficiency">> ELSE <<>>)
       \o
       (IF Get(type_counts, "maintainability", 0) > 5
        THEN <<"Improve code documentation and maintainability">> ELSE <<>>)

_generate_recommendations(issues) ==
    LET type_counts == TypeCounts(issues)
        severity_counts == SeverityCounts(issues, {"CRITICAL", "HIGH", "MEDIUM", "LOW"})
        recommendations ==
            (IF severity_counts["CRITICAL"] > 0
             THEN <<"Address critical security and logic issues immediately">> ELSE <<>>)
            \o
            (IF severity_counts["HIGH"] > 3
             THEN <<"High number of high-severity issues detected - consider code review">>
             ELSE <<>>)
            \o
            (IF Get(type_counts, "security", 0) > 0
             THEN <<"Implement security best practices and input validation">> ELSE <<>>)
            \o
            (IF Get(type_counts, "performance", 0) > 2
             THEN <<"Optimize performance bottlenecks for better efficiency">> ELSE <<>>)
            \o
            (IF Get(type_counts, "maintainability", 0) > 5
             THEN <<"Improve code documentation and maintainability">> ELSE <<>>)
    IN IF recommendations = <<>>
       THEN <<"Code quality looks good! Consider regular analysis for continuous improvement">>
       ELSE recommendations

\* BuildReport whose ai_analysis_issues counts the merged list
BuildReportAiCountsAll(info, files, statics, ais, timestamp) ==
    LET all_issues == statics \o ais
        severity_counts == SeverityCounts(all_issues, SeverityKeys)
        total_issues == Len(all_issues)
    IN [repository |-> info,
        summary |-> [total_issues |-> total_issues,
                     files_analyzed |-> Len(files),
                     overall_score |-> OverallScore(PenaltyScore(severity_counts),
                                                    Len(files), total_issues),
                     severity_breakdown |-> severity_counts,
                     issue_types |-> TypeCounts(all_issues)],
        issues |-> all_issues,
        recommendations |-> _generate_recommendations(all_issues),
        analysis_metadata |-> [static_analysis_issues |-> Len(statics),
                               ai_analysis_issues |-> Len(all_issues),
                               timestamp |-> timestamp]]

\* the report dict built in the try block; TallyRaises decides whether it is reached
BuildReport(info, files, statics, ais, timestamp) ==
    LET all_issues == statics \o ais
        severity_counts == SeverityCounts(all_issues, SeverityKeys)
        total_issues == Len(all_issues)
    IN [repository |-> info,
        summary |-> [total_issues |-> total_issues,
                     files_analyzed |-> Len(files),
                     overall_score |-> OverallScore(PenaltyScore(severity_counts),
                                                    Len(files), total_issues),
                     severity_breakdown |-> severity_counts,
                     issue_types |-> TypeCounts(all_issues)],
        issues |-> all_issues,
        recommendations |-> _generate_recommendations(all_issues),
        analysis_metadata |-> [static_analysis_issues |-> Len(statics),
                               ai_analysis_issues |-> Len(ais),
                               timestamp |-> timestamp]]

(***************************************************************************)
(* The workflow graph of _create_workflow.                                 *)
(***************************************************************************)
Nodes == <<"parse_repo", "extract_files", "static_analysis", "ai_analysis",
           "generate_report">>

EntryPoint == "parse_repo"

END == "END"

\* Edge with the last edge dropped: ai_analysis leads straight to END
EdgeSkipsReport(node) ==
    CASE node = "parse_repo"      -> "extract_files"
      [] node = "extract_files"   -> "static_analysis"
      [] node = "static_analysis" -> "ai_analysis"
      [] node = "ai_analysis"     -> END
      [] node = "generate_report" -> END

Edge(node) == CASE node = "parse_repo"      -> "extract_files"
                [] node = "extract_files"   -> "static_analysis"
                [] node = "static_analysis" -> "ai_analysis"
                [] node = "ai_analysis"     -> "generate_report"
                [] node = "generate_report" -> END

(***************************************************************************)
(* Construction: IssueAnalyzerPipeline.__init__ builds the collaborators.  *)
(* GeminiAnalyzer.__init__ leaves one of three configurations: the CLI     *)
(* (use_cli, no model), the API (a model), or neither (fallback only).     *)
(***************************************************************************)
Init ==
    /\ pc = "idle"
    /\ use_cli \in BOOLEAN
    /\ model \in BOOLEAN
    /\ ~(use_cli /\ model)
    /\ repo_url = NoneDict
    /\ repo_info = EmptyDict
    /\ code_files = <<>>
    /\ static_issues = <<>>
    /\ ai_issues = <<>>
    /\ final_report = EmptyDict
    /\ error = ""
    /\ executed = <<>>
    /\ result = NoneDict
    /\ temp_dir = FALSE
    /\ temp_dir_left = FALSE
    /\ ai_produced = <<>>
    /\ provider_calls = <<>>

Ran(node, raised) == [node |-> node, raised |-> raised]

\* analyze(), up to workflow.invoke: a fresh AnalysisState enters the graph
Analyze(url) ==
    /\ pc \in {"idle", "returned"}
    /\ pc' = EntryPoint
    /\ repo_url' = url
    /\ repo_info' = EmptyDict
    /\ code_files' = <<>>
    /\ static_issues' = <<>>
    /\ ai_issues' = <<>>
    /\ final_report' = EmptyDict
    /\ error' = ""
    /\ executed' = <<>>
    /\ result' = NoneDict
    /\ ai_produced' = <<>>
    /\ provider_calls' = <<>>
    /\ UNCHANGED <<use_cli, model, parserState>>

_parse_repository(api_ok) ==
    /\ pc = "parse_repo"
    /\ LET parsed_url == parse_github_url(repo_url)
       IN IF parsed_url.ok
          THEN /\ repo_info' = Merge(get_repository_info(repo_url, api_ok), parsed_url.value)
               /\ error' = error
          ELSE /\ error' = "Failed to parse repository: " \o parsed_url.value
               /\ repo_info' = repo_info
    /\ pc' = Edge("parse_repo")
    /\ executed' = Append(executed, Ran("parse_repo", ~parse_github_url(repo_url).ok))
    /\ UNCHANGED <<use_cli, model, repo_url, code_files, static_issues, ai_issues,
                   final_report, result, parserState, aiRecord>>

\* clone_ok: git clones into the directory mkdtemp made; rm_ok: shutil.rmtree
\* removes that directory (it raises otherwise).  When the clone fails the
\* handler removes the directory before it raises; an rmtree that raises there
\* replaces the exception.  exists: the directory is on disk afterwards.
clone_repository(clone_ok, rm_ok) ==
    IF clone_ok THEN [raised |-> FALSE, message |-> "", exists |-> TRUE]
    ELSE IF rm_ok
    THEN [raised |-> TRUE, message |-> "Failed to clone repository: git error",
          exists |-> FALSE]
    ELSE [raised |-> TRUE, message |-> "[Errno 13] Permission denied", exists |-> TRUE]

\* whether the directory is still on disk after cleanup(): a failing rmtree is
\* printed and swallowed
cleanup(exists, rm_ok) == exists /\ ~rm_ok

\* repo: the files of the clone
_extract_code_files(clone_ok, rm_ok, repo) ==
    /\ pc = "extract_files"
    /\ LET cloned == clone_repository(clone_ok, rm_ok)
       IN /\ IF ~cloned.raised
             THEN /\ code_files' = extract_code_files(repo)
                  /\ error' = error
             ELSE /\ error' = "Failed to extract code files: " \o cloned.message
                  /\ code_files' = code_files
          /\ temp_dir_left' = (temp_dir_left \/ cleanup(cloned.exists, rm_ok))
    /\ temp_dir' = TRUE
    /\ pc' = Edge("extract_files")
    /\ executed' = Append(executed, Ran("extract_files", ~clone_ok))
    /\ UNCHANGED <<use_cli, model, repo_url, repo_info, static_issues, ai_issues,
                   final_report, result, aiRecord>>

\* _run_static_analysis that assigns each file's issues instead of extending
_run_static_analysisLastFile ==
    /\ pc = "static_analysis"
    /\ static_issues' =
           IF code_files = <<>> THEN <<>>
           ELSE analyze_file(code_files[Len(code_files)].content,
                             code_files[Len(code_files)].language,
                             code_files[Len(code_files)].path)
    /\ pc' = Edge("static_analysis")
    /\ executed' = Append(executed, Ran("static_analysis", FALSE))
    /\ UNCHANGED <<use_cli, model, repo_url, repo_info, code_files, ai_issues,
                   final_report, error, result, parserState, aiRecord>>

_run_static_analysis ==
    /\ pc = "static_analysis"
    /\ static_issues' =
           Flatten([i \in 1..Len(code_files) |->
                       analyze_file(code_files[i].content, code_files[i].language,
                                    code_files[i].path)])
    /\ pc' = Edge("static_analysis")
    /\ executed' = Append(executed, Ran("static_analysis", FALSE))
    /\ UNCHANGED <<use_cli, model, repo_url, repo_info, code_files, ai_issues,
                   final_report, error, result, parserState, aiRecord>>

AI_FILES_LIMIT == 10

SIMULATION_MAX_CHARS == 5000

RuntimeIssue(issue_text, file_path) ==
    [type |-> "runtime_risk", severity |-> "MEDIUM", title |-> "Potential Runtime Issue",
     description |-> issue_text, line |-> 1,
     suggestion |-> "Review code for runtime safety",
     file_path |-> file_path, source |-> "gemini_simulation"]

\* FilesToAnalyze without the slice
FilesToAnalyzeAll(files) == files

\* code_files[:10]
FilesToAnalyze(files) == SubSeq(files, 1, Min(Len(files), AI_FILES_LIMIT))

\* len(file_info["content"]) < 5000
Simulated(file_info) == ContentLen(file_info.content) < SIMULATION_MAX_CHARS

\* the issues the loop of _run_ai_analysis adds for one file
AiIssuesOfFile(cli, mdl, file_info, logic_reply, sim_reply) ==
    analyze_code_logic(cli, mdl, file_info.content, file_info.language, file_info.path,
                       logic_reply)
    \o
    (IF Simulated(file_info)
     THEN LET runtime_issues == simulate_code_execution(mdl, sim_reply)
          IN [k \in 1..Len(runtime_issues) |-> RuntimeIssue(runtime_issues[k], file_info.path)]
     ELSE <<>>)

\* the calls the loop of _run_ai_analysis makes for one file
CallsOfFile(file_info) ==
    << [call |-> "analyze_code_logic", path |-> file_info.path] >>
    \o
    (IF Simulated(file_info)
     THEN << [call |-> "simulate_code_execution", path |-> file_info.path] >>
     ELSE <<>>)

ProviderCalls(files) ==
    Flatten([i \in 1..Len(FilesToAnalyze(files)) |-> CallsOfFile(FilesToAnalyze(files)[i])])

\* whether an exception leaves the try block of _run_ai_analysis
AiStageRaises(cli, mdl, files, logic, sim) ==
    \/ \E i \in 1..Len(files) :
           \/ analyze_code_logic_raises(cli, mdl, logic[i])
           \/ Simulated(files[i]) /\ simulate_code_execution_raises(mdl, sim[i])
    \/ generate_improvement_suggestions_raises(mdl)

\* logic, sim: the backend's answers per analysed file; enh: per file_path
_run_ai_analysis(logic, sim, enh) ==
    /\ pc = "ai_analysis"
    /\ \E raised \in { AiStageRaises(use_cli, model, FilesToAnalyze(code_files),
                                     logic, sim) } :
          /\ IF raised
             THEN /\ error' = "AI analysis failed: the backend raised"
                  /\ UNCHANGED <<static_issues, ai_issues, aiRecord>>
             ELSE \E all_ai_issues \in
                         { Flatten([i \in 1..Len(FilesToAnalyze(code_files)) |->
                                       AiIssuesOfFile(use_cli, model,
                                                      FilesToAnalyze(code_files)[i],
                                                      logic[i], sim[i])]) } :
                     \E enhanced_issues \in
                            { generate_improvement_suggestions(
                                  model, static_issues \o all_ai_issues, enh) } :
                        /\ static_issues' = SubSeq(enhanced_issues, 1, Len(static_issues))
                        /\ ai_issues' = SubSeq(enhanced_issues, Len(static_issues) + 1,
                                               Len(enhanced_issues))
                        /\ ai_produced' = all_ai_issues
                        /\ provider_calls' = ProviderCalls(code_files)
                        /\ error' = error
          /\ executed' = Append(executed, Ran("ai_analysis", raised))
    /\ pc' = Edge("ai_analysis")
    /\ UNCHANGED <<use_cli, model, repo_url, repo_info, code_files, final_report,
                   result, parserState>>

\* _generate_final_report that clears the error when it succeeds
_generate_final_reportClearsError(timestamp) ==
    /\ pc = "generate_report"
    /\ IF TallyRaises(static_issues \o ai_issues)
       THEN /\ error' = "Report generation failed: unhashable type: 'list'"
            /\ final_report' = final_report
       ELSE /\ final_report' = BuildReport(repo_info, code_files, static_issues,
                                           ai_issues, timestamp)
            /\ error' = ""
    /\ pc' = Edge("generate_report")
    /\ executed' = Append(executed,
                           Ran("generate_report", TallyRaises(static_issues \o ai_issues)))
    /\ UNCHANGED <<use_cli, model, repo_url, repo_info, code_files, static_issues,
                   ai_issues, result, parserState, aiRecord>>

_generate_final_report(timestamp) ==
    /\ pc = "generate_report"
    /\ IF TallyRaises(static_issues \o ai_issues)
       THEN /\ error' = "Report generation failed: unhashable type: 'list'"
            /\ final_report' = final_report
       ELSE /\ final_report' = BuildReport(repo_info, code_files, static_issues,
                                           ai_issues, timestamp)
            /\ error' = error
    /\ pc' = Edge("generate_report")
    /\ executed' = Append(executed,
                           Ran("generate_report", TallyRaises(static_issues \o ai_issues)))
    /\ UNCHANGED <<use_cli, model, repo_url, repo_info, code_files, static_issues,
                   ai_issues, result, parserState, aiRecord>>

\* analyze_result that hands the partial report back on failure
analyze_resultKeepsReport(final_error, report) ==
    IF final_error # ""
    THEN [success |-> FALSE, error |-> final_error, report |-> report]
    ELSE [success |-> TRUE, error |-> None, report |-> report]

\* what analyze() returns for the final_state of workflow.invoke
analyze_result(final_error, report) ==
    IF final_error # ""
    THEN [success |-> FALSE, error |-> final_error, report |-> NoneDict]
    ELSE [success |-> TRUE, error |-> None, report |-> report]

AnalyzeReturn ==
    /\ pc = END
    /\ result' = analyze_result(error, final_report)
    /\ pc' = "returned"
    /\ UNCHANGED <<use_cli, model, repo_url, repo_info, code_files, static_issues,
                   ai_issues, final_report, error, executed, parserState, aiRecord>>

(***************************************************************************)
(* The backend answers the pipeline specification draws from.              *)
(***************************************************************************)
Fail == [kind |-> "fail"]

\* answers that parse as JSON of another shape than a list of issue records
MalformedReplies == { [kind |-> "json_bad"] }

LogicReplies ==
    { Fail,
      [kind |-> "json",
       issues |-> << [type |-> "logic_error", severity |-> "CRITICAL",
                      title |-> "Off by one", description |-> "Loop runs once too often",
                      line |-> 2, suggestion |-> "Use < instead of <="] >>],
      [kind |-> "json",
       issues |-> << [type |-> "code_smell", severity |-> "Major", line |-> 1] >>],
      [kind |-> "json",
       issues |-> << [type |-> "security", severity |-> JsonList,
                      title |-> "Injection", description |-> "Unsanitised input",
                      line |-> 1, suggestion |-> "Escape the input"] >>] }

SimReplies ==
    { Fail,
      [kind |-> "text",
       lines |-> <<"The code looks safe", "An IndexError exception is possible">>] }

EnhReplies ==
    { Fail, [kind |-> "text", lines |-> <<"Issue -> Use a guard clause", "">>] }

\* without a backend no call is made, and no answer is drawn
AnswersOf(available, replies) == IF available THEN replies ELSE {Fail}

Timestamp == "2024-01-01T00:00:00"

Next ==
    \/ \E url \in Urls : Analyze(url)
    \/ \E api_ok \in BOOLEAN : _parse_repository(api_ok)
    \/ \E clone_ok \in BOOLEAN, repo \in Repos : _extract_code_files(clone_ok, TRUE, repo)
    \/ _run_static_analysis
    \/ \E logic \in [1..Len(code_files) -> AnswersOf(use_cli \/ model, LogicReplies)],
          sim \in [1..Len(code_files) -> AnswersOf(model, SimReplies)],
          enh \in [{code_files[i].path : i \in 1..Len(code_files)}
                       -> AnswersOf(model, EnhReplies)] :
          _run_ai_analysis(logic, sim, enh)
    \/ _generate_final_report(Timestamp)
    \/ AnalyzeReturn

Spec == Init /\ [][Next]_vars

(***************************************************************************)
(* The pipeline with a removal of the temporary directory that may fail    *)
(* (shutil.rmtree raising, as on the read-only files git leaves under      *)
(* .git).  Spec above lets every removal succeed; here the clone delivers  *)
(* at most one file and every backend call fails, which keeps the state    *)
(* space of the repeated runs small.                                       *)
(***************************************************************************)
CleanRepos == { r \in Repos : Len(r) <= 1 }

CleanNext ==
    \/ \E url \in Urls : Analyze(url)
    \/ \E api_ok \in BOOLEAN : _parse_repository(api_ok)
    \/ \E clone_ok \in BOOLEAN, rm_ok \in BOOLEAN, repo \in CleanRepos :
          _extract_code_files(clone_ok, rm_ok, repo)
    \/ _run_static_analysis
    \/ _run_ai_analysis([i \in 1..Len(code_files) |-> Fail],
                        [i \in 1..Len(code_files) |-> Fail],
                        [f \in {code_files[i].path : i \in 1..Len(code_files)} |-> Fail])
    \/ _generate_final_report(Timestamp)
    \/ AnalyzeReturn

CleanSpec == Init /\ [][CleanNext]_vars

(***************************************************************************)
(* Synthesis on its own: _generate_final_report applied to every RunState  *)
(* drawn from bounded sets of code units and issues, as the contract       *)
(* synthesize(repoMeta, codeUnits, staticIssues, aiIssues) allows.         *)
(***************************************************************************)
SynthUnit(i) == [path |-> "f" \o ToString(i) \o ".py", content |-> <<Line("x = 1", 5)>>,
                 language |-> "python", size |-> 5]

SynthFileCounts == 0..MaxFiles \cup {ManyFiles}

SynthAiIssue(fields) ==
    Merge([title |-> "Finding", description |-> "Reported by the backend", line |-> 1,
           suggestion |-> "Review", file_path |-> "f1.py", source |-> "gemini"], fields)

SynthAiIssues ==
    { SynthAiIssue([type |-> "security", severity |-> sev]) :
          sev \in SeverityKeys \cup {"Major", JsonList} }
    \cup { SynthAiIssue([type |-> "logic_error"]),
           SynthAiIssue([severity |-> "HIGH"]),
           SynthAiIssue([type |-> JsonList, severity |-> "LOW"]) }

SynthStaticIssues ==
    { <<>>, analyze_file(<<Line("def f():", 8)>>, "python", "f1.py") }

SeqsUpTo(S, n) == UNION { [1..k -> S] : k \in 0..n }

SynthInit ==
    /\ pc = "generate_report"
    /\ use_cli = FALSE
    /\ model = FALSE
    /\ repo_url = [github |-> TRUE, parts |-> <<"owner", "repo">>]
    /\ repo_info = parse_github_url(repo_url).value
    /\ \E n \in SynthFileCounts : code_files = [i \in 1..n |-> SynthUnit(i)]
    /\ static_issues \in SynthStaticIssues
    /\ ai_issues \in SeqsUpTo(SynthAiIssues, MaxIssues)
    /\ final_report = EmptyDict
    /\ error = ""
    /\ executed = [k \in 1..4 |-> Ran(Nodes[k], FALSE)]
    /\ result = NoneDict
    /\ temp_dir = TRUE
    /\ temp_dir_left = FALSE
    /\ ai_produced = ai_issues
    /\ provider_calls = ProviderCalls(code_files)

SynthNext ==
    \/ _generate_final_report(Timestamp)
    \/ AnalyzeReturn

SynthSpec == SynthInit /\ [][SynthNext]_vars

(***************************************************************************)
(* Synthesis over issue lists large enough to reach the thresholds of      *)
(* _generate_recommendations: a list holds, for each kind of issue below,  *)
(* none, exactly the threshold of the rule the kind feeds, or up to        *)
(* MaxOver more.                                                           *)
(***************************************************************************)
RecKinds ==
    << [type |-> "logic_error",     severity |-> "CRITICAL", threshold |-> 0],
       [type |-> "security",        severity |-> "CRITICAL", threshold |-> 0],
       [type |-> "logic_error",     severity |-> "HIGH",     threshold |-> 3],
       [type |-> "security",        severity |-> "LOW",      threshold |-> 0],
       [type |-> "performance",     severity |-> "MEDIUM",   threshold |-> 2],
       [type |-> "maintainability", severity |-> "LOW",      threshold |-> 5] >>

RecCounts ==
    { c \in [1..Len(RecKinds) -> 0..(5 + MaxOver)] :
          \A k \in 1..Len(RecKinds) :
              c[k] \in {0} \cup (RecKinds[k].threshold..(RecKinds[k].threshold + MaxOver)) }

RecIssues(c) ==
    Flatten([k \in 1..Len(RecKinds) |->
                [n \in 1..c[k] |-> SynthAiIssue([type |-> RecKinds[k].type,
                                                 severity |-> RecKinds[k].severity])]])

RecInit ==
    /\ pc = "generate_report"
    /\ use_cli = FALSE
    /\ model = FALSE
    /\ repo_url = [github |-> TRUE, parts |-> <<"owner", "repo">>]
    /\ repo_info = parse_github_url(repo_url).value
    /\ code_files = <<SynthUnit(1)>>
    /\ static_issues = <<>>
    /\ \E c \in RecCounts : ai_issues = RecIssues(c)
    /\ final_report = EmptyDict
    /\ error = ""
    /\ executed = [k \in 1..4 |-> Ran(Nodes[k], FALSE)]
    /\ result = NoneDict
    /\ temp_dir = TRUE
    /\ temp_dir_left = FALSE
    /\ ai_produced = ai_issues
    /\ provider_calls = ProviderCalls(code_files)

RecSpec == RecInit /\ [][SynthNext]_vars

(***************************************************************************)
(* The AI stage on its own, over more code units than it analyses: the     *)
(* static stage has run over up to AI_FILES_LIMIT + MaxFiles units, at most *)
(* one of them one character below, or exactly at, the size from which a   *)
(* unit is not simulated.  The backend gives every file the same answer.   *)
(***************************************************************************)
AiUnit(i, chars) == [path |-> "f" \o ToString(i) \o ".py",
                     content |-> <<Line("except:", chars)>>,
                     language |-> "python", size |-> chars]

AiUnits(n, at, chars) == [i \in 1..n |-> AiUnit(i, IF i = at THEN chars ELSE 5)]

AiInit ==
    /\ pc = "ai_analysis"
    /\ use_cli \in BOOLEAN
    /\ model \in BOOLEAN
    /\ ~(use_cli /\ model)
    /\ repo_url = [github |-> TRUE, parts |-> <<"owner", "repo">>]
    /\ repo_info = parse_github_url(repo_url).value
    /\ \E n \in 0..(AI_FILES_LIMIT + MaxFiles) :
          \E at \in 0..n, chars \in {SIMULATION_MAX_CHARS - 1, SIMULATION_MAX_CHARS} :
              code_files = AiUnits(n, at, chars)
    /\ static_issues =
           Flatten([i \in 1..Len(code_files) |->
                       analyze_file(code_files[i].content, code_files[i].language,
                                    code_files[i].path)])
    /\ ai_issues = <<>>
    /\ final_report = EmptyDict
    /\ error = ""
    /\ executed = [k \in 1..3 |-> Ran(Nodes[k], FALSE)]
    /\ result = NoneDict
    /\ temp_dir = TRUE
    /\ temp_dir_left = FALSE
    /\ ai_produced = <<>>
    /\ provider_calls = <<>>

AiNext ==
    \/ \E l \in AnswersOf(use_cli \/ model, LogicReplies \cup MalformedReplies),
          r \in AnswersOf(model, SimReplies),
          e \in AnswersOf(model, EnhReplies) :
          _run_ai_analysis([i \in 1..Len(code_files) |-> l],
                           [i \in 1..Len(code_files) |-> r],
                           [f \in {code_files[i].path : i \in 1..Len(code_files)} |-> e])
    \/ _generate_final_report(Timestamp)
    \/ AnalyzeReturn

AiSpec == AiInit /\ [][AiNext]_vars

(***************************************************************************)
(* The extraction stage on its own, over clones around the file cap.  The  *)
(* repository a URL names fixes what the clone holds: n files, all code    *)
(* files of five characters but possibly one, which is exactly at the byte *)
(* cap, one byte above it, hidden, of no supported extension, or           *)
(* unreadable.                                                             *)
(***************************************************************************)
ExtKinds == {"atcap", "over", "hidden", "text", "unreadable"}

ExtFile(i, kind) ==
    LET name == "f" \o ToString(i)
    IN CASE kind = "ok"         -> RepoFile(name \o ".py", ".py", FALSE, TRUE,
                                            <<Line("x = 1", 5)>>)
         [] kind = "atcap"      -> RepoFile(name \o ".py", ".py", FALSE, TRUE,
                                            <<Line("x = 1", MAX_FILE_SIZE)>>)
         [] kind = "over"       -> RepoFile(name \o ".py", ".py", FALSE, TRUE,
                                            <<Line("x = 1", MAX_FILE_SIZE + 1)>>)
         [] kind = "hidden"     -> RepoFile(".git/" \o name \o ".py", ".py", TRUE, TRUE,
                                            <<Line("x = 1", 5)>>)
         [] kind = "text"       -> RepoFile(name \o ".txt", ".txt", FALSE, TRUE,
                                            <<Line("x = 1", 5)>>)
         [] kind = "unreadable" -> RepoFile(name \o ".py", ".py", FALSE, FALSE,
                                            <<Line("x = 1", 5)>>)

ExtCases ==
    { c \in [n : (0..MaxFiles) \cup ((MAX_FILES_TO_ANALYZE - 1)..(MAX_FILES_TO_ANALYZE + MaxFiles)),
             at : 0..(MAX_FILES_TO_ANALYZE + MaxFiles),
             kind : ExtKinds] : c.at <= c.n }

ExtUrl(c) == [github |-> TRUE,
              parts |-> <<"owner", "repo-" \o ToString(c.n) \o "-" \o ToString(c.at)
                                       \o "-" \o c.kind>>]

\* the files of the clone of the repository the URL names
ExtRepo(url) ==
    LET c == CHOOSE x \in ExtCases : ExtUrl(x) = url
    IN [i \in 1..c.n |-> ExtFile(i, IF i = c.at THEN c.kind ELSE "ok")]

ExtInit ==
    /\ pc = "extract_files"
    /\ use_cli = FALSE
    /\ model = FALSE
    /\ repo_url \in {ExtUrl(c) : c \in ExtCases}
    /\ repo_info = parse_github_url(repo_url).value
    /\ code_files = <<>>
    /\ static_issues = <<>>
    /\ ai_issues = <<>>
    /\ final_report = EmptyDict
    /\ error = ""
    /\ executed = <<Ran(Nodes[1], FALSE)>>
    /\ result = NoneDict
    /\ temp_dir = FALSE
    /\ temp_dir_left = FALSE
    /\ ai_produced = <<>>
    /\ provider_calls = <<>>

ExtNext == \E clone_ok \in BOOLEAN : _extract_code_files(clone_ok, TRUE, ExtRepo(repo_url))

ExtSpec == ExtInit /\ [][ExtNext]_vars

(***************************************************************************)
(* The detectors on their own: the static stage and the AI stage run on    *)
(* one code unit drawn from bounded sets, with a backend that, where one   *)
(* is configured, fails every call.  A unit is n filler lines (blank, or a *)
(* docstring) with a drawn line at up to two positions; or a function of   *)
(* around LongFunctionThreshold lines.                                     *)
(***************************************************************************)
DetLanguages == {"python", "javascript", "java"}

DetLines ==
    { Line("except:", 7), Line("def f():", 8), Line("q = a / b", 9),
      Line("if b: q = a / b", 15), Line("for i in range(len(a)):", 23),
      Line("function g() {", 14), Line("y = eval(s)", 11),
      Line("x = 1", LongLineThreshold), Line("x = 1", LongLineThreshold + 1),
      Line("x = 1", 130) }

DetFillers == { Line("", 0), Line("\"\"\"doc\"\"\"", 9) }

DetPath(language) == CASE language = "python"     -> "u.py"
                       [] language = "javascript" -> "u.js"
                       [] OTHER                   -> "u.java"

DetUnit(language, content) ==
    [path |-> DetPath(language), content |-> content, language |-> language,
     size |-> ContentLen(content)]

\* n lines of filler, `line` at the positions at1 and at2 (0: nowhere)
DetContent(n, at1, at2, line, filler) ==
    [i \in 1..n |-> IF i = at1 \/ i = at2 THEN line ELSE filler]

\* a function of `len` lines: its definition and len - 1 lines of body
DetFunction(language, len) ==
    [i \in 1..len |->
        IF i = 1 THEN (IF language = "python" THEN Line("def f():", 8)
                       ELSE Line("function g() {", 14))
        ELSE Line("x = 1", 9)]

DetUnits ==
    { DetUnit(language, DetContent(c.n, c.at1, c.at2, c.line, c.filler)) :
          language \in DetLanguages,
          c \in { x \in [n : 1..MaxLines, at1 : 0..MaxLines, at2 : 0..MaxLines,
                         line : DetLines, filler : DetFillers] :
                      /\ x.at1 <= x.n
                      /\ x.at2 <= x.n
                      /\ x.at2 = 0 \/ x.at1 < x.at2 } }
    \cup
    { DetUnit(language, DetFunction(language, len)) :
          language \in {"python", "javascript"},
          len \in (LongFunctionThreshold - 1)..(LongFunctionThreshold + 1 + MaxOver) }

DetInit ==
    /\ pc = "static_analysis"
    /\ use_cli \in BOOLEAN
    /\ model \in BOOLEAN
    /\ ~(use_cli /\ model)
    /\ repo_url = [github |-> TRUE, parts |-> <<"owner", "repo">>]
    /\ repo_info = parse_github_url(repo_url).value
    /\ \E unit \in DetUnits : code_files = <<unit>>
    /\ static_issues = <<>>
    /\ ai_issues = <<>>
    /\ final_report = EmptyDict
    /\ error = ""
    /\ executed = [k \in 1..2 |-> Ran(Nodes[k], FALSE)]
    /\ result = NoneDict
    /\ temp_dir = TRUE
    /\ temp_dir_left = FALSE
    /\ ai_produced = <<>>
    /\ provider_calls = <<>>

DetNext ==
    \/ _run_static_analysis
    \/ _run_ai_analysis([i \in 1..Len(code_files) |-> Fail],
                        [i \in 1..Len(code_files) |-> Fail],
                        [f \in {code_files[i].path : i \in 1..Len(code_files)} |-> Fail])
    \/ _generate_final_report(Timestamp)
    \/ AnalyzeReturn

DetSpec == DetInit /\ [][DetNext]_vars

(***************************************************************************)
(* Properties.                                                             *)
(***************************************************************************)
StageNames == {Nodes[k] : k \in 1..Len(Nodes)}

Terminal == pc \in {END, "returned"}

ReportPresent == final_report # EmptyDict

RECURSIVE SumFn(_)
SumFn(f) == IF DOMAIN f = {} THEN 0
            ELSE LET k == CHOOSE x \in DOMAIN f : TRUE
                 IN f[k] + SumFn([x \in DOMAIN f \ {k} |-> f[x]])

\* C1: once a stage has set RunState.error no further stage executes: a step
\* taken while error is set runs no node (it only returns, or starts a new run).
C1_NoStageAfterError ==
    [][error # "" => executed' \in {executed, <<>>}]_vars

\* C2: the stages run in the fixed order parse_repo, extract_files,
\* static_analysis, ai_analysis, generate_report, each at most once; the run
\* can always take its next step until it has returned, and a run that ended
\* has run all five.
C2_LinearOrder ==
    /\ Len(executed) <= Len(Nodes)
    /\ \A k \in 1..Len(executed) : executed[k].node = Nodes[k]
    /\ pc \in StageNames => pc = Nodes[Len(executed) + 1]
    /\ Terminal => Len(executed) = Len(Nodes)
    /\ pc = "parse_repo" => ENABLED (\E api_ok \in BOOLEAN : _parse_repository(api_ok))
    /\ pc = "extract_files" =>
           ENABLED (\E clone_ok \in BOOLEAN, repo \in Repos :
                        _extract_code_files(clone_ok, TRUE, repo))
    /\ pc = "static_analysis" => ENABLED _run_static_analysis
    /\ pc = "ai_analysis" =>
           ENABLED _run_ai_analysis([i \in 1..Len(code_files) |-> Fail],
                                    [i \in 1..Len(code_files) |-> Fail],
                                    [f \in {code_files[i].path : i \in 1..Len(code_files)}
                                        |-> Fail])
    /\ pc = "generate_report" => ENABLED _generate_final_report(Timestamp)
    /\ pc = END => ENABLED AnalyzeReturn

C2_Witness == pc = "returned" /\ Len(executed) = Len(Nodes)

\* C3: analyze() returns exactly {success, error, report}; when a stage set
\* the error it is {False, the non-empty message, None}, otherwise it is
\* {True, None, the Report generate_report stored}; success never comes with
\* an absent or empty report, failure never with a report.
C3_ResultConsistent ==
    pc = "returned" =>
        /\ DOMAIN result = {"success", "error", "report"}
        /\ IF \E k \in 1..Len(executed) : executed[k].raised
           THEN /\ result.success = FALSE
                /\ result.error \notin {"", None}
                /\ result.error = error
                /\ result.report = NoneDict
           ELSE /\ result.success = TRUE
                /\ result.error = None
                /\ result.report = final_report
                /\ result.report \notin {NoneDict, EmptyDict}
                /\ DOMAIN result.report = {"repository", "summary", "issues",
                                            "recommendations", "analysis_metadata"}

C3_Witness ==
    /\ pc = "returned"
    /\ result.success = FALSE
    /\ executed[Len(Nodes)].raised
    /\ \A k \in 1..4 : ~executed[k].raised

\* C4: a terminal RunState is either Done (no error, the Report present) or
\* Failed (an error, final_report still empty), never both an error and a Report.
C4_TerminalShapes ==
    Terminal => \/ error = "" /\ ReportPresent
                \/ error # "" /\ ~ReportPresent

\* C5: in every Report the counts of severity_breakdown add up to total_issues.
C5_SeveritySum ==
    ReportPresent =>
        SumFn(final_report.summary.severity_breakdown) = final_report.summary.total_issues

\* the severity the specification gives an issue: its own when it is one of the
\* five levels, MEDIUM when it is absent or anything else
EffectiveSeverity(issue) ==
    IF "severity" \in DOMAIN issue /\ issue.severity \in SeverityKeys
    THEN issue.severity ELSE "MEDIUM"

\* C6: an issue whose severity is absent or is not one of the five levels counts
\* as MEDIUM: severity_breakdown tallies every issue under its effective
\* severity, and the score's penalty weighs it as MEDIUM.
C6_UnrecognizedIsMedium ==
    ReportPresent =>
        LET effective == [s \in SeverityKeys |->
                             CountBy(final_report.issues, EffectiveSeverity, s)]
        IN /\ final_report.summary.severity_breakdown = effective
           /\ final_report.summary.overall_score =
                  OverallScore(PenaltyScore(effective), final_report.summary.files_analyzed,
                               final_report.summary.total_issues)

\* C7: in every Report the counts of issue_types add up to total_issues, which is
\* the length of issues; the issues without a type are counted under 'unknown'.
C7_TypeSum ==
    ReportPresent =>
        LET summary == final_report.summary
            untyped == {i \in 1..Len(final_report.issues) :
                            "type" \notin DOMAIN final_report.issues[i]}
            named == {i \in 1..Len(final_report.issues) :
                          /\ "type" \in DOMAIN final_report.issues[i]
                          /\ final_report.issues[i].type = "unknown"}
        IN /\ SumFn(summary.issue_types) = summary.total_issues
           /\ summary.total_issues = Len(final_report.issues)
           /\ Len(final_report.issues) = Len(static_issues) + Len(ai_issues)
           /\ Get(summary.issue_types, "unknown", 0) = Cardinality(untyped \cup named)

C7_Witness ==
    /\ ReportPresent
    /\ Get(final_report.summary.issue_types, "unknown", 0) = 2
    /\ Cardinality(DOMAIN final_report.summary.issue_types) = 2

\* C8: overall_score lies in [0, 100] (0..1000 tenths) in every Report.
C8_ScoreInRange ==
    ReportPresent =>
        /\ final_report.summary.overall_score >= 0
        /\ final_report.summary.overall_score <= 1000

C8_Witness ==
    /\ ReportPresent
    /\ final_report.summary.overall_score = 0
    /\ final_report.summary.files_analyzed > 0
    /\ final_report.summary.severity_breakdown["CRITICAL"] = 0

\* #level in a Report: its issues of that severity, an issue that carries no
\* severity counting as MEDIUM
NumberOf(report, level) ==
    Cardinality({i \in 1..Len(report.issues) :
                     IF "severity" \in DOMAIN report.issues[i]
                     THEN report.issues[i].severity = level
                     ELSE level = "MEDIUM"})

RefPenalty(report) ==
    10 * NumberOf(report, "CRITICAL") + 5 * NumberOf(report, "HIGH")
    + 2 * NumberOf(report, "MEDIUM") + NumberOf(report, "LOW")

\* C9: the score is the reference formula: with penalty = 10*#CRITICAL +
\* 5*#HIGH + 2*#MEDIUM + #LOW and n files, for n > 0 it is 0 when
\* 100 - penalty*10/n is not positive and otherwise that value to the nearest
\* tenth; for n = 0 it is 100 without issues and 50 with any.  One file with
\* two CRITICAL issues scores 0.
C9_ScoreFormula ==
    ReportPresent =>
        LET summary == final_report.summary
            n == summary.files_analyzed
            exact == 1000 * n - 100 * RefPenalty(final_report)  \* n times the tenths
            off == summary.overall_score * n - exact
        IN /\ n > 0 /\ exact <= 0 => summary.overall_score = 0
           /\ n > 0 /\ exact > 0 => 2 * off <= n /\ 2 * off >= -n
           /\ n = 0 /\ summary.total_issues = 0 => summary.overall_score = 1000
           /\ n = 0 /\ summary.total_issues > 0 => summary.overall_score = 500
           /\ (n = 1 /\ NumberOf(final_report, "CRITICAL") = 2
                  /\ summary.total_issues = 2) =>
                  RefPenalty(final_report) = 20 /\ summary.overall_score = 0

C9_Witness ==
    /\ ReportPresent
    /\ final_report.summary.files_analyzed = 1
    /\ final_report.summary.severity_breakdown["CRITICAL"] = 2
    /\ final_report.summary.total_issues = 2
    /\ final_report.summary.overall_score = 0

\* the score synthesis gives the current code units with one more AI issue
ScoreOf(ais) ==
    BuildReport(repo_info, code_files, static_issues, ais, Timestamp).summary.overall_score

\* C10: with the code units fixed, one more CRITICAL, HIGH, MEDIUM or LOW issue
\* never raises overall_score, also when there are no code units.
C10_ScoreMonotone ==
    pc = "generate_report" /\ ~TallyRaises(static_issues \o ai_issues) =>
        \A sev \in {"CRITICAL", "HIGH", "MEDIUM", "LOW"} :
            ScoreOf(Append(ai_issues, SynthAiIssue([type |-> "security", severity |-> sev])))
                <= ScoreOf(ai_issues)

C10_Witness ==
    /\ pc = "generate_report"
    /\ code_files = <<>>
    /\ static_issues \o ai_issues = <<>>
    /\ ScoreOf(ai_issues) = 1000
    /\ ScoreOf(<<SynthAiIssue([type |-> "security", severity |-> "LOW"])>>) = 500

FallbackRecommendation ==
    "Code quality looks good! Consider regular analysis for continuous improvement"

\* C11: a Report over an empty merged issue list has overall_score 100 whatever
\* the file count (zero files included), and its recommendations are exactly the
\* one-element list holding the fallback 'looks good' string.
C11_EmptyIssuesScore ==
    (ReportPresent /\ final_report.issues = <<>>) =>
        /\ final_report.summary.total_issues = 0
        /\ final_report.summary.overall_score = 1000
        /\ final_report.recommendations = <<FallbackRecommendation>>

C11_Witness ==
    /\ ReportPresent
    /\ final_report.issues = <<>>
    /\ final_report.summary.files_analyzed = 0
    /\ final_report.summary.overall_score = 1000

\* the five rules in the order of the specification: string and trigger
RuleStrings ==
    << "Address critical security and logic issues immediately",
       "High number of high-severity issues detected - consider code review",
       "Implement security best practices and input validation",
       "Optimize performance bottlenecks for better efficiency",
       "Improve code documentation and maintainability" >>

HowMany(issues, field, value) ==
    Cardinality({i \in 1..Len(issues) :
                     field \in DOMAIN issues[i] /\ issues[i][field] = value})

RuleTriggers(issues) ==
    << HowMany(issues, "severity", "CRITICAL") > 0,
       HowMany(issues, "severity", "HIGH") > 3,
       HowMany(issues, "type", "security") > 0,
       HowMany(issues, "type", "performance") > 2,
       HowMany(issues, "type", "maintainability") > 5 >>

\* C12: recommendations holds a rule's string iff the rule's trigger holds
\* (CRITICAL > 0; HIGH > 3; security > 0; performance > 2; maintainability > 5),
\* the strings standing in that order; the fallback string is there iff no
\* trigger holds and is then the only element; the list is never empty and
\* holds no duplicate.
C12_Recommendations ==
    ReportPresent =>
        LET rec == final_report.recommendations
            triggers == RuleTriggers(final_report.issues)
            Holds(str) == \E i \in 1..Len(rec) : rec[i] = str
        IN /\ \A k \in 1..5 : Holds(RuleStrings[k]) <=> triggers[k]
           /\ \A i, j \in 1..Len(rec) : \A a, b \in 1..5 :
                  (i < j /\ rec[i] = RuleStrings[a] /\ rec[j] = RuleStrings[b]) => a < b
           /\ Holds(FallbackRecommendation) <=> \A k \in 1..5 : ~triggers[k]
           /\ Holds(FallbackRecommendation) => rec = <<FallbackRecommendation>>
           /\ \A i \in 1..Len(rec) :
                  rec[i] = FallbackRecommendation \/ \E k \in 1..5 : rec[i] = RuleStrings[k]
           /\ rec # <<>>
           /\ \A i, j \in 1..Len(rec) : rec[i] = rec[j] => i = j

C12_Witness ==
    /\ ReportPresent
    /\ final_report.recommendations = RuleStrings
    /\ HowMany(final_report.issues, "severity", "HIGH") = 4

\* an issue without the field the enhancement attaches
Strip(issue) == [k \in DOMAIN issue \ {"enhanced_suggestion"} |-> issue[k]]

\* the step in which the AI stage ran to its end
AiStageStep == pc = "ai_analysis" /\ pc' = "generate_report" /\ error' = error

\* C13: enhance preserves the list, whatever the backend answers: the output is
\* as long as the input, its i-th issue is the i-th issue of the input, and no
\* field other than enhanced_suggestion differs; also when issues of several
\* file_path values are interleaved in the input.
C13_EnhancePreservesList ==
    [][AiStageStep =>
          LET input == static_issues \o ai_produced'
              output == static_issues' \o ai_issues'
          IN /\ Len(output) = Len(input)
             /\ \A i \in 1..Len(input) : Strip(output[i]) = Strip(input[i])]_vars

StripAll(issues) == [k \in 1..Len(issues) |-> Strip(issues[k])]

\* the same issues, each as often, in whatever order
SameIssues(a, b) ==
    /\ Len(a) = Len(b)
    /\ \A x \in {a[k] : k \in 1..Len(a)} \cup {b[k] : k \in 1..Len(b)} :
           Cardinality({k \in 1..Len(a) : a[k] = x})
               = Cardinality({k \in 1..Len(b) : b[k] = x})

\* an issue of the AI stage carries a 'source', one of a static check does not
FromAiStage(issue) == "source" \in DOMAIN issue

\* C14: after the AI stage, whatever the backend answered, the static partition
\* holds exactly the issues the static stage produced, in their order and
\* differing at most by an enhanced_suggestion, and the AI partition holds
\* exactly the issues the AI stage produced; so in the issues of the Report
\* every issue of a static check precedes every issue of the AI stage.
C14_PartitionsKept ==
    [][/\ AiStageStep =>
              /\ StripAll(static_issues') = static_issues
              /\ SameIssues(StripAll(ai_issues'), ai_produced')
       /\ (pc = "generate_report" /\ ReportPresent') =>
              \A i, j \in 1..Len(final_report'.issues) :
                  i < j => ~(/\ FromAiStage(final_report'.issues[i])
                            /\ ~FromAiStage(final_report'.issues[j]))]_vars

\* C15: enhance is the identity when the issue list is empty or when there is
\* no API model (the CLI mode included): the list comes back unchanged and no
\* issue carries an enhanced_suggestion.
C15_EnhanceIdentity ==
    [][(AiStageStep /\ (~model \/ static_issues \o ai_produced' = <<>>)) =>
          /\ static_issues' \o ai_issues' = static_issues \o ai_produced'
          /\ \A i \in 1..Len(static_issues' \o ai_issues') :
                 "enhanced_suggestion" \notin DOMAIN (static_issues' \o ai_issues')[i]]_vars

\* the CLI mode, after an AI stage whose list mixed two files
C15_Witness ==
    /\ pc = "generate_report"
    /\ use_cli /\ ~model
    /\ Len(static_issues) > 1 /\ Len(ai_issues) > 1
    /\ static_issues[1].file_path # static_issues[Len(static_issues)].file_path
    /\ ai_issues[1].file_path = static_issues[1].file_path
    /\ ai_issues = ai_produced

\* C16: a failure of the AI provider (an exception or timeout of the call, a
\* non-zero exit of the CLI, an answer that is no JSON or whose 'issues' is not
\* a list of records) never reaches the pipeline: the calls of the AI stage
\* return a value, so the stage never runs its except branch and never sets
\* the error.
C16_ProviderNeverPropagates ==
    /\ \A k \in 1..Len(executed) : executed[k].node = "ai_analysis" => ~executed[k].raised
    /\ error # "AI analysis failed: the backend raised"
    /\ (pc = "generate_report" /\ ~executed[1].raised /\ ~executed[2].raised) => error = ""

\* the API mode after a failed call or an unreadable answer: the fallback ran
C16_Witness ==
    /\ pc = "generate_report"
    /\ model
    /\ error = ""
    /\ \E k \in 1..Len(ai_issues) : ai_issues[k].source = "fallback"

\* C18: the extraction stage releases the temporary directory of the clone on
\* every path (clone failed, extraction failed, both succeeded): once the
\* stage has returned, no directory made by clone_repository is left on disk,
\* in the first run and in every later run of the same pipeline object.
C18_TempDirReleased == ~temp_dir_left

CallsTo(name) ==
    LET IsCall(c) == c.call = name
        calls == SelectSeq(provider_calls, IsCall)
    IN [k \in 1..Len(calls) |-> calls[k].path]

\* C19: the AI stage calls the provider for the first min(10, n) code units
\* only, in extraction order and once each for the logic detection, however
\* many units the extraction delivered; it calls the simulation for those of
\* them whose content is shorter than 5000 characters, once each, and for no
\* other unit.
C19_ProviderCallsBounded ==
    Len(executed) >= 4 =>
        LET n == Len(code_files)
            m == IF n < 10 THEN n ELSE 10
            simulated == {i \in 1..m : ContentLen(code_files[i].content) < 5000}
        IN /\ CallsTo("analyze_code_logic") = [i \in 1..m |-> code_files[i].path]
           /\ {CallsTo("simulate_code_execution")[k] :
                   k \in 1..Len(CallsTo("simulate_code_execution"))}
                  = {code_files[i].path : i \in simulated}
           /\ Len(CallsTo("simulate_code_execution")) = Cardinality(simulated)
           /\ Len(provider_calls) = m + Cardinality(simulated)

\* more units than the stage analyses, one of the analysed ones too long to
\* be simulated
C19_Witness ==
    /\ pc = "generate_report"
    /\ Len(code_files) > 10
    /\ Len(CallsTo("analyze_code_logic")) = 10
    /\ Len(CallsTo("simulate_code_execution")) = 9

\* C20: extraction yields at most 50 code units and none larger than 1,048,576;
\* a file exactly at the byte cap is accepted, one above it is skipped without
\* failing the stage, and extraction stops once it holds 50 units: the units
\* are the first 50 (or all, when fewer) files of the clone that are visible,
\* of a supported extension, readable and within the byte cap, in order.
C20_ExtractionCaps ==
    /\ Len(code_files) <= 50
    /\ \A k \in 1..Len(code_files) : code_files[k].size <= 1048576
    /\ (pc = "static_analysis" /\ error = "") =>
           LET repo == ExtRepo(repo_url)
               Accepted(i) == /\ ~repo[i].hidden
                              /\ repo[i].suffix \in DOMAIN SUPPORTED_EXTENSIONS
                              /\ repo[i].readable
                              /\ repo[i].st_size <= 1048576
               accepted == SelectIdx(repo, Accepted)
               kept == IF Len(accepted) < 50 THEN Len(accepted) ELSE 50
           IN /\ ~executed[2].raised
              /\ [k \in 1..Len(code_files) |-> code_files[k].path]
                     = [k \in 1..kept |-> repo[accepted[k]].path]
              /\ \A k \in 1..kept :
                     /\ code_files[k].content = repo[accepted[k]].content
                     /\ code_files[k].size = repo[accepted[k]].st_size

\* a clone of more than 50 acceptable files, one of the first 50 at the byte cap
C20_Witness ==
    /\ pc = "static_analysis"
    /\ error = ""
    /\ Len(code_files) = 50
    /\ \E k \in 1..Len(code_files) : code_files[k].size = 1048576
    /\ Len(ExtRepo(repo_url)) > 50
    /\ \A i \in 1..Len(ExtRepo(repo_url)) : ExtRepo(repo_url)[i].st_size <= 1048576

\* the origin a source tag of the code names: static, ai, ai_simulation or
\* fallback; "none" for an issue without the key and for any other value
Origin(issue) ==
    LET tag == Get(issue, "source", "")
    IN CASE tag = "static"            -> "static"
         [] tag = "gemini"            -> "ai"
         [] tag = "gemini_simulation" -> "ai_simulation"
         [] tag = "fallback"          -> "fallback"
         [] OTHER                     -> "none"

\* C21: each text the simulation returns becomes one issue of type
\* runtime_risk, severity MEDIUM, line 0 (file level), of origin
\* ai_simulation, whose file_path is the path of the simulated code unit.
C21_SimulationIssues ==
    \A k \in 1..Len(ai_produced) :
        TypeOf(ai_produced[k]) = "runtime_risk" =>
            /\ ai_produced[k].severity = "MEDIUM"
            /\ ai_produced[k].line = 0
            /\ Origin(ai_produced[k]) = "ai_simulation"
            /\ \E i \in 1..Len(code_files) : code_files[i].path = ai_produced[k].file_path

\* the code unit the detectors were run on
DetCode == code_files[1].content

StaticRan == Len(executed) >= 3

AiRan == Len(executed) >= 4

\* a python unit whose only line that is not empty is one `except:`
OnlyBareExcept ==
    /\ code_files[1].language = "python"
    /\ \A i \in 1..Len(DetCode) : DetCode[i].text \in {"", "except:"}
    /\ Cardinality({i \in 1..Len(DetCode) : DetCode[i].text = "except:"}) = 1

\* C22: the bare-except and unguarded-division checks are the fallback
\* provider's alone.  For a python unit whose only non-empty line is `except:`
\* the static detector yields no issue, while the logic detection without a
\* backend, or with one whose call fails, yields exactly one: 'Bare Except
\* Clause', MEDIUM, at that line, of origin fallback.  Every issue of that path
\* is of origin fallback, and for a unit that is not python the path yields
\* nothing.
C22_FallbackOnlyChecks ==
    /\ (StaticRan /\ OnlyBareExcept) => static_issues = <<>>
    /\ AiRan =>
          /\ \A k \in 1..Len(ai_produced) : Origin(ai_produced[k]) = "fallback"
          /\ code_files[1].language # "python" => ai_produced = <<>>
          /\ OnlyBareExcept =>
                /\ Len(ai_produced) = 1
                /\ ai_produced[1].title = "Bare Except Clause"
                /\ ai_produced[1].severity = "MEDIUM"
                /\ DetCode[ai_produced[1].line].text = "except:"
                /\ ai_produced[1].file_path = code_files[1].path

\* the failing backend call on four empty lines and `except:` at line 5
C22_Witness ==
    /\ AiRan
    /\ model
    /\ OnlyBareExcept
    /\ Len(DetCode) = 5
    /\ DetCode[5].text = "except:"
    /\ static_issues = <<>>
    /\ Len(ai_produced) = 1
    /\ ai_produced[1].line = 5
    /\ ai_produced[1].source = "fallback"

\* the issues of the static stage that carry the title
StaticTitled(title) ==
    LET Is(issue) == Get(issue, "title", "") = title
    IN SelectSeq(static_issues, Is)

\* C23: for a code unit of any language the static detector emits one 'Long
\* Line' issue (code_quality, LOW) per line longer than 120 characters, its
\* line the 1-based index of that line, and none for a line of 120 characters
\* or fewer.
C23_LongLines ==
    StaticRan =>
        LET IsLong(i) == DetCode[i].len > 120
            long == SelectIdx(DetCode, IsLong)
            issues == StaticTitled("Long Line")
        IN /\ Len(issues) = Len(long)
           /\ \A k \in 1..Len(issues) :
                 /\ issues[k].line = long[k]
                 /\ issues[k].type = "code_quality"
                 /\ issues[k].severity = "LOW"
                 /\ issues[k].file_path = code_files[1].path

\* a javascript unit with a line of 130 characters at line 3
C23_Witness ==
    /\ StaticRan
    /\ code_files[1].language = "javascript"
    /\ Len(DetCode) >= 3
    /\ DetCode[3].len = 130
    /\ \E k \in 1..Len(static_issues) :
          /\ static_issues[k].title = "Long Line"
          /\ static_issues[k].line = 3
          /\ static_issues[k].severity = "LOW"

\* the issues of the static stage whose file_path is `path`
StaticOfPath(path) ==
    LET Is(issue) == Get(issue, "file_path", "") = path
    IN SelectSeq(static_issues, Is)

\* C24: when the static stage has run, static_issues is the concatenation, in
\* the order of the code units, of what the detector yields for each unit on
\* its own, and every issue carries the path of the unit it was found in.
C24_StaticConcatenation ==
    pc = "ai_analysis" =>
        LET detect(i) == analyze_file(code_files[i].content, code_files[i].language,
                                      code_files[i].path)
        IN /\ static_issues = Flatten([i \in 1..Len(code_files) |-> detect(i)])
           /\ \A k \in 1..Len(static_issues) :
                 /\ "file_path" \in DOMAIN static_issues[k]
                 /\ \E i \in 1..Len(code_files) :
                       code_files[i].path = static_issues[k].file_path
           /\ \A i \in 1..Len(code_files) : StaticOfPath(code_files[i].path) = detect(i)

\* two code units, each with issues of its own
C24_Witness ==
    /\ pc = "ai_analysis"
    /\ Len(code_files) = 2
    /\ StaticOfPath(code_files[1].path) # <<>>
    /\ StaticOfPath(code_files[2].path) # <<>>
    /\ static_issues[1].file_path = code_files[1].path
    /\ static_issues[Len(static_issues)].file_path = code_files[2].path

\* what the static detector yields for the extracted code units
StaticDetected ==
    Flatten([i \in 1..Len(code_files) |->
                analyze_file(code_files[i].content, code_files[i].language,
                             code_files[i].path)])

\* C25: in every Report, analysis_metadata.static_analysis_issues is the number
\* of issues the static stage produced, analysis_metadata.ai_analysis_issues
\* the number the AI stage produced before the enhancement, their sum is
\* summary.total_issues, and summary.files_analyzed is the number of extracted
\* code units.
C25_MetadataCounts ==
    ReportPresent =>
        /\ final_report.analysis_metadata.static_analysis_issues = Len(StaticDetected)
        /\ final_report.analysis_metadata.ai_analysis_issues = Len(ai_produced)
        /\ final_report.analysis_metadata.static_analysis_issues
               + final_report.analysis_metadata.ai_analysis_issues
           = final_report.summary.total_issues
        /\ final_report.summary.files_analyzed = Len(code_files)

\* a Report over issues the enhancement has regrouped
C25_Witness ==
    /\ ReportPresent
    /\ final_report.analysis_metadata.static_analysis_issues > 0
    /\ final_report.analysis_metadata.ai_analysis_issues > 0
    /\ final_report.summary.files_analyzed = 2
    /\ ai_issues # ai_produced
    /\ static_issues # StaticDetected

\* C26: for a python code unit the static detector emits one 'Missing
\* Documentation' issue (maintainability, LOW) per line whose stripped text
\* starts with 'def ', at that line, whether or not a docstring follows; for a
\* unit of another language it emits no maintainability and no performance
\* issue.
C26_MissingDocumentation ==
    StaticRan =>
        LET IsDef(i) == StartsWith(DetCode[i].text, "def ")
            defs == SelectIdx(DetCode, IsDef)
            issues == StaticTitled("Missing Documentation")
        IN IF code_files[1].language = "python"
           THEN /\ Len(issues) = Len(defs)
                /\ \A k \in 1..Len(issues) :
                      /\ issues[k].line = defs[k]
                      /\ issues[k].type = "maintainability"
                      /\ issues[k].severity = "LOW"
                /\ \A k \in 1..Len(static_issues) :
                      static_issues[k].type = "maintainability"
                          => static_issues[k].title = "Missing Documentation"
           ELSE \A k \in 1..Len(static_issues) :
                    static_issues[k].type \notin {"maintainability", "performance"}

\* a python function whose next line is a docstring
C26_Witness ==
    /\ StaticRan
    /\ code_files[1].language = "python"
    /\ Len(DetCode) >= 3
    /\ DetCode[2].text = "def f():"
    /\ DetCode[3].text = "\"\"\"doc\"\"\""
    /\ \E k \in 1..Len(static_issues) :
          /\ static_issues[k].title = "Missing Documentation"
          /\ static_issues[k].line = 2

\* whether line i of the unit is one the structure analysis takes for a function
IsFunctionLine(i) ==
    CASE code_files[1].language = "python"     -> StartsWith(DetCode[i].text, "def ")
      [] code_files[1].language = "javascript" -> Contains(DetCode[i], "function ")
      [] OTHER                                 -> FALSE

\* the lines of the function defined at line i: up to the next function or the
\* end of the unit
FunctionLength(i) ==
    LET later == {j \in (i + 1)..Len(DetCode) : IsFunctionLine(j)}
    IN IF later = {} THEN Len(DetCode) + 1 - i
       ELSE (CHOOSE j \in later : \A x \in later : j <= x) - i

\* C27: the quality check emits a 'Long Function' issue (MEDIUM, at the line of
\* the definition) for every discovered function longer than the threshold of
\* 50 lines, so a unit holding such a function yields at least one.
C27_LongFunction ==
    StaticRan =>
        \A i \in 1..Len(DetCode) :
            (IsFunctionLine(i) /\ FunctionLength(i) > 50) =>
                \E k \in 1..Len(static_issues) :
                    /\ static_issues[k].title = "Long Function"
                    /\ static_issues[k].severity = "MEDIUM"
                    /\ static_issues[k].line = i

Origins == {"static", "ai", "ai_simulation", "fallback"}

\* C28: every issue of the RunState and of the Report carries a source tag
\* that names its origin (static, ai, ai_simulation or fallback), and every
\* issue the static detector produced is tagged static.
C28_SourceTags ==
    /\ \A k \in 1..Len(static_issues) : Origin(static_issues[k]) \in Origins
    /\ \A k \in 1..Len(ai_issues) : Origin(ai_issues[k]) \in Origins
    /\ ReportPresent =>
          \A k \in 1..Len(final_report.issues) : Origin(final_report.issues[k]) \in Origins
    /\ pc = "ai_analysis" =>
          \A k \in 1..Len(static_issues) : Origin(static_issues[k]) = "static"

\* C29: within a run, when synthesis runs over no code units (nothing was
\* extracted, or the extraction failed) the static and the AI issue lists are
\* both empty, so the Report has total_issues 0 and overall_score 100: the
\* branch that scores 50 for issues without files is never taken.
C29_NoFilesNoIssues ==
    /\ (pc \in {"generate_report", END, "returned"} /\ code_files = <<>>) =>
           /\ static_issues = <<>>
           /\ ai_issues = <<>>
    /\ (ReportPresent /\ final_report.summary.files_analyzed = 0) =>
           /\ final_report.summary.total_issues = 0
           /\ final_report.summary.overall_score = 1000
    /\ ReportPresent => final_report.summary.files_analyzed = Len(code_files)

\* a run whose extraction failed, with a backend, synthesised over no files
C29_Witness ==
    /\ pc = END
    /\ model
    /\ executed[2].raised
    /\ code_files = <<>>
    /\ ReportPresent
    /\ final_report.summary.total_issues = 0
    /\ final_report.summary.overall_score = 1000

\* what a stage writes before the text of the exception it caught
ErrorPrefix(node) ==
    CASE node = "parse_repo"       -> "Failed to parse repository: "
      [] node = "extract_files"    -> "Failed to extract code files: "
      [] node = "static_analysis"  -> "Static analysis failed: "
      [] node = "ai_analysis"      -> "AI analysis failed: "
      [] node = "generate_report"  -> "Report generation failed: "

\* the texts of the exceptions the stages catch
ExceptionTexts ==
    { "Failed to parse GitHub URL: Invalid GitHub URL",
      "Failed to parse GitHub URL: Invalid GitHub URL format",
      "Failed to clone repository: git error",
      "[Errno 13] Permission denied",
      "the backend raised",
      "unhashable type: 'list'" }

StageMessages(node) == { ErrorPrefix(node) \o text : text \in ExceptionTexts }

\* the stages of this run that failed, by their position in the run
FailedStages == { k \in 1..Len(executed) : executed[k].raised }

LastFailed == CHOOSE k \in FailedStages : \A j \in FailedStages : j <= k

\* a step of a stage: a failure writes the stage's message, a success leaves
\* the error as it was; the return leaves it too
ErrorStep ==
    /\ pc \in StageNames =>
          LET ran == executed'[Len(executed')]
          IN IF ran.raised THEN error' \in StageMessages(ran.node)
             ELSE error' = error
    /\ pc = END => error' = error

\* C30: within a run the error is never cleared once set: a later stage that
\* succeeds leaves it unchanged and a later stage that fails overwrites it, so
\* the error analyze() returns is the message of the last stage that failed,
\* and a run in which any stage failed never returns success = true.
C30_ErrorNeverCleared ==
    /\ [][ErrorStep]_vars
    /\ [](FailedStages # {} =>
             /\ error \in StageMessages(executed[LastFailed].node)
             /\ pc = "returned" =>
                   /\ result.success = FALSE
                   /\ result.error = error)

\* a run in which the parse and the extraction both failed and the later
\* stages succeeded: the extraction's message is returned
C30_Witness ==
    /\ pc = "returned"
    /\ Len(executed) = 5
    /\ executed[1].raised
    /\ executed[2].raised
    /\ ~executed[5].raised
    /\ result.success = FALSE
    /\ result.error = "Failed to extract code files: Failed to clone repository: git error"
====
